---- MODULE Spec2Model ----
(***************************************************************************)
(* Model of app/src/main/cpp/llama_jni.cpp: the generational handle        *)
(* registry, the LlamaSession flags, the InferenceGuard and the four JNI   *)
(* entry points (nativeLoadModel, nativeRunInference, nativeUnload,        *)
(* nativeCancelInference) called from concurrent threads.                  *)
(*                                                                         *)
(* Atomicity: one action per access to shared memory (a registry call      *)
(* under g_registry_mutex, one atomic load or store, one run of engine     *)
(* calls on ctx/model); thread-local work is folded into the neighbouring  *)
(* access.  Threads interleave sequentially consistently: the build is     *)
(* arm64-v8a only, where the release stores and acquire loads of the flags *)
(* are STLR and LDAR and are not reordered with each other.                *)
(***************************************************************************)
EXTENDS Integers, Sequences, FiniteSets, TLC

\* ------------------------------------------------------------------ bounds

\* Width of g_generation and g_slot in the model (uint32_t in the source).
CounterBits == 2
\* Number of registry_insert calls in the specification of the counters.
MaxLoads == 5
\* Largest maxTokens argument of nativeRunInference explored.
MaxTokens == 2
\* Number of registry_insert calls in the specifications of the caller threads.
MaxSessions == 1
\* The context window (session->n_ctx) of the sessions.
NCtx == 2

\* ------------------------------------------------------- program constants

UNLOAD_WAIT_MS == 300
UNLOAD_POLL_MS == 10

\* ------------------------------------------------------------ derived sets

RECURSIVE Pow2(_)
Pow2(n) == IF n = 0 THEN 1 ELSE 2 * Pow2(n - 1)

\* uint32_t arithmetic is modulo CounterModulus.
CounterModulus == Pow2(CounterBits)

\* (static_cast<uint64_t>(gen) << 32) | slot, with the model's field width.
EncodeHandle(gen, slot) == gen * CounterModulus + slot
HandleGeneration(h) == h \div CounterModulus
HandleSlot(h) == h % CounterModulus

HandleSpace == 0 .. (CounterModulus * CounterModulus - 1)

InferThreads == {"i1", "i2"}
UnloadThreads == {"u1", "u2"}

NoSession == 0

\* What llama_tokenize can return into a buffer of n_ctx tokens: negative when
\* it fails, otherwise the count, at least 1 because add_bos is true.  One
\* value above n_ctx is kept to exercise the >= of line 378.
TokenCounts == {-1} \cup (1 .. NCtx + 1)

ErrorKinds ==
    {"NULL_HANDLE", "STALE_HANDLE", "POISONED", "NULL_CTX", "NULL_PROMPT",
     "TOKENIZE", "CTX_OVERFLOW", "DECODE"}

VARIABLES
    g_registry,     \* handle -> session id, NoSession when absent
    g_generation,
    g_slot,
    nsessions,      \* sessions made and registered so far; ids 1..nsessions
    inserts,        \* registry_insert calls so far
    cancel_flag,    \* session -> BOOLEAN
    poisoned,       \* session -> BOOLEAN
    running,        \* session -> BOOLEAN
    ctx,            \* session -> "live" | "null" (null: freed and reset)
    model,          \* session -> "live" | "null"
    orphans,        \* model+ctx pairs no session in reach owns any more
    inf,            \* per nativeRunInference thread: its position and locals
    unl,            \* per nativeUnload thread
    can,            \* the nativeCancelInference thread
    \* history (never read by the program)
    issued,         \* handle -> times a load returned it (capped at 2)
    live,           \* handles returned by a load and not erased since
    retired,        \* handles whose erasing unload has returned
    owners,         \* session -> unload calls that got it from registry_erase
    frees,          \* session -> calls of llama_free on its ctx
    uaf,            \* sessions that had an engine call on freed ctx/model
    overlapped,     \* sessions that had two guarded scopes overlap
    overflowed,     \* registry_insert has refused an insert
    \* the data of one call, kept apart from the caller threads
    text,           \* is_json_object_closed: the string it is called on
    closed,         \* is_json_object_closed: what it returned for text
    runs            \* the decode loops of two invocations on the same model

progVars ==
    <<g_registry, g_generation, g_slot, nsessions, inserts, cancel_flag, poisoned,
      running, ctx, model, orphans, inf, unl, can>>
histVars == <<issued, live, retired, owners, frees, uaf, overlapped, overflowed>>
detVars == <<text, closed>>
dataVars == <<detVars, runs>>
vars == <<progVars, histVars, dataVars>>

Sessions == 1 .. nsessions

\* The jlong values callers pass: 0, every value a load has returned so far, and
\* one value registry_insert never produces (generation 1, slot 0), which stands
\* for every value no load has returned.
CallerHandles == {0, EncodeHandle(1, 0)} \cup {h \in HandleSpace : issued[h] > 0}

\* A caller thread between calls, with what its last call returned.
\* The last five fields are history, never read by the program: whether
\* cancel_flag was set when the call looked the session up, when a
\* nativeCancelInference stored during the call ("setup": before the reset of
\* line 349, "check": after it with cancelAt steps finished and none under
\* way, "midstep": during a step), whether llama_decode has been called, and
\* whether a nativeUnload erased the session's entry while the call was inside
\* its guard.
InfIdle == [pc |-> "idle", handle |-> 0, sess |-> NoSession, i |-> 0, maxTokens |-> 0,
            result |-> "NONE", count |-> 0, touched |-> FALSE,
            stale |-> FALSE, cancelWhen |-> "none", cancelAt |-> 0, decoded |-> FALSE,
            taken |-> FALSE]
UnlIdle == [pc |-> "idle", sess |-> NoSession, handle |-> 0, waited_ms |-> 0,
            outcome |-> "none", expired |-> FALSE]
CanIdle == [pc |-> "idle", sess |-> NoSession]

\* The two invocations whose decode loops are followed side by side.
RunIds == {"a", "b"}

NoResult == [tag |-> "NONE", count |-> 0, text |-> <<>>]

\* selected: the tokens chosen so far, which with the prompt are the context
\* of the engine.  appended counts the tokens whose piece was appended to
\* output, picks collects how each chosen token relates to the logits it was
\* chosen from (PickKind), exit names the way the loop was left.
RunIdle ==
    [pc |-> "idle", maxTokens |-> 0, temperature |-> 0, topP |-> 0,
     i |-> 0, n_tokens |-> 0, n_cur |-> 0, generated_count |-> 0,
     output |-> <<>>, selected |-> <<>>, appended |-> 0, picks |-> {}, exit |-> "none",
     result |-> NoResult]

Init ==
    /\ g_registry = [h \in HandleSpace |-> NoSession]
    /\ g_generation = 0
    /\ g_slot = 0
    /\ nsessions = 0
    /\ inserts = 0
    /\ cancel_flag = <<>>
    /\ poisoned = <<>>
    /\ running = <<>>
    /\ ctx = <<>>
    /\ model = <<>>
    /\ orphans = 0
    /\ inf = [t \in InferThreads |-> InfIdle]
    /\ unl = [u \in UnloadThreads |-> UnlIdle]
    /\ can = CanIdle
    /\ issued = [h \in HandleSpace |-> 0]
    /\ live = {}
    /\ retired = {}
    /\ owners = <<>>
    /\ frees = <<>>
    /\ uaf = {}
    /\ overlapped = {}
    /\ overflowed = FALSE
    /\ text = <<>>
    /\ closed = FALSE
    /\ runs = [r \in RunIds |-> RunIdle]

\* ---------------------------------------------------------------- registry

\* registry_insert: both counters are incremented (and stored) first; the
\* insert is refused when either is 0 after the increment.
InsertGeneration == (g_generation + 1) % CounterModulus
InsertSlot == (g_slot + 1) % CounterModulus
InsertRefused == InsertGeneration = 0 \/ InsertSlot = 0
InsertHandle == IF InsertRefused THEN 0 ELSE EncodeHandle(InsertGeneration, InsertSlot)

\* registry_lookup: the session stored under the handle, or nullptr.
registry_lookup(h) == IF h \in HandleSpace THEN g_registry[h] ELSE NoSession

\* registry_erase: the shared_ptr the call returns (nullptr when absent).
registry_erase_session(h) == IF h \in HandleSpace THEN g_registry[h] ELSE NoSession

\* Mutant: the entry stays in the map.
registry_erase_KeepsEntry(h) == g_registry

\* registry_erase: the registry after the call (the entry removed).
registry_erase(h) == [g_registry EXCEPT ![h] = NoSession]

\* --------------------------------------------------------- nativeLoadModel

\* The whole handler: every step before registry_insert is local to the call.
\* limit bounds the calls that reach registry_insert.
nativeLoadModel(limit) ==
    /\ \/ \* llama_load_model_from_file returned null: return 0
          /\ UNCHANGED <<g_registry, g_generation, g_slot, nsessions, inserts,
                         cancel_flag, poisoned, running, ctx, model, orphans, histVars>>
       \/ \* llama_new_context_with_model returned null: model freed, return 0
          /\ UNCHANGED <<g_registry, g_generation, g_slot, nsessions, inserts,
                         cancel_flag, poisoned, running, ctx, model, orphans, histVars>>
       \/ \* registry_insert refuses: the session is dropped with model and ctx
          \* still allocated (LlamaSession has no destructor), return 0
          /\ inserts < limit
          /\ InsertRefused
          /\ inserts' = inserts + 1
          /\ g_generation' = InsertGeneration
          /\ g_slot' = InsertSlot
          /\ orphans' = orphans + 1
          /\ overflowed' = TRUE
          /\ UNCHANGED <<g_registry, nsessions, cancel_flag, poisoned, running, ctx,
                         model, issued, live, retired, owners, frees, uaf, overlapped>>
       \/ \* registry_insert stores the session and returns its handle
          /\ inserts < limit
          /\ ~InsertRefused
          /\ inserts' = inserts + 1
          /\ g_generation' = InsertGeneration
          /\ g_slot' = InsertSlot
          /\ nsessions' = nsessions + 1
          /\ g_registry' = [g_registry EXCEPT ![InsertHandle] = nsessions + 1]
          \* g_registry[handle] = session replaces an entry already there
          /\ orphans' = IF g_registry[InsertHandle] # NoSession THEN orphans + 1 ELSE orphans
          /\ cancel_flag' = Append(cancel_flag, FALSE)
          /\ poisoned' = Append(poisoned, FALSE)
          /\ running' = Append(running, FALSE)
          /\ ctx' = Append(ctx, "live")
          /\ model' = Append(model, "live")
          /\ issued' = [issued EXCEPT ![InsertHandle] = IF @ < 2 THEN @ + 1 ELSE @]
          /\ live' = live \cup {InsertHandle}
          /\ owners' = Append(owners, 0)
          /\ frees' = Append(frees, 0)
          /\ UNCHANGED <<retired, uaf, overlapped, overflowed>>
    /\ UNCHANGED <<inf, unl, can, dataVars>>

\* ------------------------------------------------------ nativeRunInference

\* The positions of nativeRunInference inside the InferenceGuard's scope.
GuardedPcs == {"check2", "reset", "prefill", "loop", "step"}
\* The positions up to and including the re-check of poisoned (line 344).
SetupPcs == {"check1", "nullchk", "guard", "check2"}

InGuard(t) == inf[t].pc \in GuardedPcs

\* An engine primitive called on session s: on its model, its ctx or both.
\* A call on a freed one is recorded.
EngineCall(s, onModel, onCtx) ==
    uaf' = IF (onModel /\ model[s] = "null") \/ (onCtx /\ ctx[s] = "null")
           THEN uaf \cup {s} ELSE uaf

\* return env->NewStringUTF(...): the locals go out of scope.
Returned(t, kind, cnt, tch) ==
    [InfIdle EXCEPT !.handle = inf[t].handle, !.result = kind, !.count = cnt,
                    !.touched = tch, !.decoded = inf[t].decoded]

\* Mutant: the destructor leaves running as it is.
GuardRelease_Forgets(s) == running

\* ~InferenceGuard: running.store(false).
GuardRelease(s) == [running EXCEPT ![s] = FALSE]

\* Mutant: the constructor leaves running as it is.
GuardAcquire_Forgets(s) == running

\* InferenceGuard(session): running.store(true).
GuardAcquire(s) == [running EXCEPT ![s] = TRUE]

\* Lines 320-328: the null-handle test and registry_lookup.  With observe the
\* call keeps the history of cancel_flag at its lookup.
RI_Lookup(t, h, observe) ==
    /\ inf[t].pc = "idle"
    /\ \/ /\ h = 0
          /\ inf' = [inf EXCEPT ![t] = [InfIdle EXCEPT !.result = "NULL_HANDLE"]]
       \/ /\ h # 0
          /\ registry_lookup(h) = NoSession
          /\ inf' = [inf EXCEPT ![t] =
                        [InfIdle EXCEPT !.handle = h, !.result = "STALE_HANDLE"]]
       \/ /\ h # 0
          /\ registry_lookup(h) # NoSession
          /\ \E m \in 0 .. MaxTokens :
                inf' = [inf EXCEPT ![t] =
                           [InfIdle EXCEPT !.pc = "check1", !.handle = h,
                               !.sess = registry_lookup(h), !.maxTokens = m,
                               !.stale = observe /\ cancel_flag[registry_lookup(h)]]]
    /\ UNCHANGED <<g_registry, g_generation, g_slot, nsessions, inserts, cancel_flag,
                   poisoned, running, ctx, model, orphans, unl, can, histVars, dataVars>>

\* Lines 320-328.
RI_Call(t, h) == RI_Lookup(t, h, FALSE)

\* Lines 320-328, with the history of cancel_flag at the lookup.
RI_CallObserved(t, h) == RI_Lookup(t, h, TRUE)

\* Line 331: the first load of poisoned.
RI_Check1(t) ==
    /\ inf[t].pc = "check1"
    /\ \/ /\ poisoned[inf[t].sess]
          /\ inf' = [inf EXCEPT ![t] = Returned(t, "POISONED", 0, FALSE)]
       \/ /\ ~poisoned[inf[t].sess]
          /\ inf' = [inf EXCEPT ![t].pc = "nullchk"]
    /\ UNCHANGED <<g_registry, g_generation, g_slot, nsessions, inserts, cancel_flag,
                   poisoned, running, ctx, model, orphans, unl, can, histVars, dataVars>>

\* Line 334: the plain reads of session->model and session->ctx.
RI_NullChk(t) ==
    /\ inf[t].pc = "nullchk"
    /\ \/ /\ model[inf[t].sess] = "null" \/ ctx[inf[t].sess] = "null"
          /\ inf' = [inf EXCEPT ![t] = Returned(t, "NULL_CTX", 0, FALSE)]
       \/ /\ model[inf[t].sess] # "null" /\ ctx[inf[t].sess] # "null"
          /\ inf' = [inf EXCEPT ![t].pc = "guard"]
    /\ UNCHANGED <<g_registry, g_generation, g_slot, nsessions, inserts, cancel_flag,
                   poisoned, running, ctx, model, orphans, unl, can, histVars, dataVars>>

\* Line 340: InferenceGuard guard(session).
RI_Guard(t) ==
    /\ inf[t].pc = "guard"
    /\ running' = GuardAcquire(inf[t].sess)
    /\ inf' = [inf EXCEPT ![t].pc = "check2"]
    /\ overlapped' = IF \E o \in InferThreads \ {t} :
                            InGuard(o) /\ inf[o].sess = inf[t].sess
                     THEN overlapped \cup {inf[t].sess} ELSE overlapped
    /\ UNCHANGED <<g_registry, g_generation, g_slot, nsessions, inserts, cancel_flag,
                   poisoned, ctx, model, orphans, unl, can, issued, live, retired,
                   owners, frees, uaf, overflowed, dataVars>>

\* Mutant: no re-check after the guard.
PoisonedRecheck_Skipped(s) == FALSE

\* Line 344: the load of poisoned after the guard.
PoisonedRecheck(s) == poisoned[s]

RI_Check2(t) ==
    /\ inf[t].pc = "check2"
    /\ \/ /\ PoisonedRecheck(inf[t].sess)
          /\ inf' = [inf EXCEPT ![t] = Returned(t, "POISONED", 0, FALSE)]
          /\ running' = GuardRelease(inf[t].sess)
       \/ /\ ~PoisonedRecheck(inf[t].sess)
          /\ inf' = [inf EXCEPT ![t].pc = "reset"]
          /\ UNCHANGED running
    /\ UNCHANGED <<g_registry, g_generation, g_slot, nsessions, inserts, cancel_flag,
                   poisoned, ctx, model, orphans, unl, can, histVars, dataVars>>

\* Mutant: the reset at inference start clears poisoned as well.
RI_Reset_ClearsPoisoned(t) ==
    /\ inf[t].pc = "reset"
    /\ cancel_flag' = [cancel_flag EXCEPT ![inf[t].sess] = FALSE]
    /\ poisoned' = [poisoned EXCEPT ![inf[t].sess] = FALSE]
    /\ inf' = [inf EXCEPT ![t].pc = "prefill"]
    /\ UNCHANGED <<g_registry, g_generation, g_slot, nsessions, inserts, running, ctx,
                   model, orphans, unl, can, histVars, dataVars>>

\* Mutant: no reset of cancel_flag at inference start.
RI_Reset_KeepsCancel(t) ==
    /\ inf[t].pc = "reset"
    /\ inf' = [inf EXCEPT ![t].pc = "prefill"]
    /\ UNCHANGED <<g_registry, g_generation, g_slot, nsessions, inserts, cancel_flag,
                   poisoned, running, ctx, model, orphans, unl, can, histVars, dataVars>>

\* Line 349: session->cancel_flag.store(false).
RI_Reset(t) ==
    /\ inf[t].pc = "reset"
    /\ cancel_flag' = [cancel_flag EXCEPT ![inf[t].sess] = FALSE]
    /\ inf' = [inf EXCEPT ![t].pc = "prefill"]
    /\ UNCHANGED <<g_registry, g_generation, g_slot, nsessions, inserts, poisoned,
                   running, ctx, model, orphans, unl, can, histVars, dataVars>>

\* Mutant: the prompt is refused only when it is larger than the window.
PromptTooLong_Strict(n) == n > NCtx

\* Line 378: n_tokens >= session->n_ctx.
PromptTooLong(n) == n >= NCtx

\* Lines 351-411 when llama_tokenize returns n: the prompt, llama_tokenize, the
\* context-window test, llama_kv_cache_clear, the prefill llama_decode of the
\* n tokens, llama_token_eos.
RI_PrefillTokens(t, n) ==
    /\ inf[t].pc = "prefill"
    /\ \/ \* n_tokens < 0
          /\ n < 0
          /\ inf' = [inf EXCEPT ![t] = Returned(t, "TOKENIZE", 0, TRUE)]
          /\ running' = GuardRelease(inf[t].sess)
          /\ EngineCall(inf[t].sess, TRUE, FALSE)
       \/ \* n_tokens >= session->n_ctx
          /\ n >= 0
          /\ PromptTooLong(n)
          /\ inf' = [inf EXCEPT ![t] = Returned(t, "CTX_OVERFLOW", 0, TRUE)]
          /\ running' = GuardRelease(inf[t].sess)
          /\ EngineCall(inf[t].sess, TRUE, FALSE)
       \/ \* llama_decode(session->ctx, batch) != 0
          /\ n >= 0
          /\ ~PromptTooLong(n)
          /\ inf' = [inf EXCEPT ![t] =
                        [Returned(t, "DECODE", 0, TRUE) EXCEPT !.decoded = TRUE]]
          /\ running' = GuardRelease(inf[t].sess)
          /\ EngineCall(inf[t].sess, TRUE, TRUE)
       \/ \* prefill done: enter the decode loop with i = 0
          /\ n >= 0
          /\ ~PromptTooLong(n)
          /\ inf' = [inf EXCEPT ![t].pc = "loop", ![t].touched = TRUE,
                                ![t].decoded = TRUE]
          /\ EngineCall(inf[t].sess, TRUE, TRUE)
          /\ UNCHANGED running
    /\ UNCHANGED <<g_registry, g_generation, g_slot, nsessions, inserts, cancel_flag,
                   poisoned, ctx, model, orphans, unl, can, issued, live, retired,
                   owners, frees, overlapped, overflowed, dataVars>>

\* Lines 351-411.
RI_Prefill(t) ==
    \/ \* GetStringUTFChars returned null
       /\ inf[t].pc = "prefill"
       /\ inf' = [inf EXCEPT ![t] = Returned(t, "NULL_PROMPT", 0, FALSE)]
       /\ running' = GuardRelease(inf[t].sess)
       /\ UNCHANGED <<g_registry, g_generation, g_slot, nsessions, inserts, cancel_flag,
                      poisoned, ctx, model, orphans, unl, can, histVars, dataVars>>
    \/ \E n \in TokenCounts : RI_PrefillTokens(t, n)

\* Lines 413-418: the loop condition i < maxTokens and the load of cancel_flag.
\* generated_count equals i here.
RI_Loop(t) ==
    /\ inf[t].pc = "loop"
    /\ \/ \* i == maxTokens: the loop ends
          /\ inf[t].i >= inf[t].maxTokens
          /\ inf' = [inf EXCEPT ![t] = Returned(t, "OK", inf[t].i, TRUE)]
          /\ running' = GuardRelease(inf[t].sess)
       \/ \* cancel_flag is set: break
          /\ inf[t].i < inf[t].maxTokens
          /\ cancel_flag[inf[t].sess]
          /\ inf' = [inf EXCEPT ![t] = Returned(t, "OK", inf[t].i, TRUE)]
          /\ running' = GuardRelease(inf[t].sess)
       \/ /\ inf[t].i < inf[t].maxTokens
          /\ ~cancel_flag[inf[t].sess]
          /\ inf' = [inf EXCEPT ![t].pc = "step"]
          /\ UNCHANGED running
    /\ UNCHANGED <<g_registry, g_generation, g_slot, nsessions, inserts, cancel_flag,
                   poisoned, ctx, model, orphans, unl, can, histVars, dataVars>>

\* Lines 420-480: the rest of one iteration: the timeout test, the argmax over
\* llama_get_logits_ith, the EOS test, llama_token_to_piece, generated_count++,
\* is_json_object_closed, llama_decode of the new token.
RI_Step(t) ==
    /\ inf[t].pc = "step"
    /\ \/ \* elapsed_ms > timeoutMs: break
          /\ inf' = [inf EXCEPT ![t] = Returned(t, "OK", inf[t].i, TRUE)]
          /\ running' = GuardRelease(inf[t].sess)
          /\ UNCHANGED uaf
       \/ \* best_token == eos: break
          /\ inf' = [inf EXCEPT ![t] = Returned(t, "OK", inf[t].i, TRUE)]
          /\ running' = GuardRelease(inf[t].sess)
          /\ EngineCall(inf[t].sess, TRUE, TRUE)
       \/ \* the output is a closed JSON object: break
          /\ inf' = [inf EXCEPT ![t] = Returned(t, "OK", inf[t].i + 1, TRUE)]
          /\ running' = GuardRelease(inf[t].sess)
          /\ EngineCall(inf[t].sess, TRUE, TRUE)
       \/ \* llama_decode(session->ctx, single) != 0: break
          /\ inf' = [inf EXCEPT ![t] = Returned(t, "OK", inf[t].i + 1, TRUE)]
          /\ running' = GuardRelease(inf[t].sess)
          /\ EngineCall(inf[t].sess, TRUE, TRUE)
       \/ \* next iteration
          /\ inf' = [inf EXCEPT ![t].pc = "loop", ![t].i = @ + 1]
          /\ EngineCall(inf[t].sess, TRUE, TRUE)
          /\ UNCHANGED running
    /\ UNCHANGED <<g_registry, g_generation, g_slot, nsessions, inserts, cancel_flag,
                   poisoned, ctx, model, orphans, unl, can, issued, live, retired,
                   owners, frees, overlapped, overflowed, dataVars>>

\* ------------------------------------------------------------ nativeUnload

\* return from nativeUnload.
Unloaded(u, how, exp) ==
    [UnlIdle EXCEPT !.handle = unl[u].handle, !.outcome = how, !.expired = exp]

\* Lines 510-519: the null-handle test and registry_erase; what the call does
\* to everything but the history kept in inf.
U_Erase(u, h) ==
    /\ unl[u].pc = "idle"
    /\ \/ /\ h = 0
          /\ unl' = [unl EXCEPT ![u] = [UnlIdle EXCEPT !.outcome = "noop"]]
          /\ UNCHANGED <<g_registry, live, owners>>
       \/ /\ h # 0
          /\ registry_erase_session(h) = NoSession
          /\ unl' = [unl EXCEPT ![u] = [UnlIdle EXCEPT !.handle = h, !.outcome = "noop"]]
          /\ UNCHANGED <<g_registry, live, owners>>
       \/ /\ h # 0
          /\ registry_erase_session(h) # NoSession
          /\ unl' = [unl EXCEPT ![u] = [UnlIdle EXCEPT !.pc = "poison",
                                           !.sess = registry_erase_session(h),
                                           !.handle = h]]
          /\ g_registry' = registry_erase(h)
          /\ live' = live \ {h}
          /\ owners' = [owners EXCEPT ![registry_erase_session(h)] = @ + 1]
    /\ UNCHANGED <<g_generation, g_slot, nsessions, inserts, cancel_flag, poisoned,
                   running, ctx, model, orphans, can, issued, retired, frees,
                   uaf, overlapped, overflowed, dataVars>>

\* Lines 510-519.
U_Call(u, h) ==
    /\ U_Erase(u, h)
    /\ UNCHANGED inf

\* Lines 510-519, with the history of the calls that are inside their guard on
\* the session at the erase.
U_CallObserved(u, h) ==
    /\ U_Erase(u, h)
    /\ inf' = [t \in InferThreads |->
                  IF /\ InGuard(t)
                     /\ h # 0
                     /\ inf[t].sess = registry_erase_session(h)
                  THEN [inf[t] EXCEPT !.taken = TRUE] ELSE inf[t]]

\* Line 525: session->poisoned.store(true).
U_Poison(u) ==
    /\ unl[u].pc = "poison"
    /\ poisoned' = [poisoned EXCEPT ![unl[u].sess] = TRUE]
    /\ unl' = [unl EXCEPT ![u].pc = "cancel"]
    /\ UNCHANGED <<g_registry, g_generation, g_slot, nsessions, inserts, cancel_flag,
                   running, ctx, model, orphans, inf, can, histVars, dataVars>>

\* Line 528: session->cancel_flag.store(true); then waited_ms = 0.
U_Cancel(u) ==
    /\ unl[u].pc = "cancel"
    /\ cancel_flag' = [cancel_flag EXCEPT ![unl[u].sess] = TRUE]
    /\ unl' = [unl EXCEPT ![u].pc = "wait", ![u].waited_ms = 0]
    /\ UNCHANGED <<g_registry, g_generation, g_slot, nsessions, inserts, poisoned,
                   running, ctx, model, orphans, inf, can, histVars, dataVars>>

\* Mutant: the wait loop has no bound.
WaitGoesOn_Unbounded(u) == running[unl[u].sess]

\* Line 535: the condition of the wait loop.
WaitGoesOn(u) == running[unl[u].sess] /\ unl[u].waited_ms < UNLOAD_WAIT_MS

\* Lines 535-538: one evaluation of the condition; the sleep and the increment.
\* waited_ms is not read after the loop: leaving it, the record keeps only
\* whether the full UNLOAD_WAIT_MS went by.
U_Wait(u) ==
    /\ unl[u].pc = "wait"
    /\ \/ /\ WaitGoesOn(u)
          /\ unl' = [unl EXCEPT ![u].waited_ms = @ + UNLOAD_POLL_MS]
       \/ /\ ~WaitGoesOn(u)
          /\ unl' = [unl EXCEPT ![u].pc = "final", ![u].waited_ms = 0,
                                ![u].expired = (unl[u].waited_ms >= UNLOAD_WAIT_MS)]
    /\ UNCHANGED <<g_registry, g_generation, g_slot, nsessions, inserts, cancel_flag,
                   poisoned, running, ctx, model, orphans, inf, can, histVars, dataVars>>

\* Mutant: the result of the wait is not looked at.
StillRunning_Ignored(u) == FALSE

\* Line 540: the load of running that decides between leaking and freeing.
StillRunning(u) == running[unl[u].sess]

\* Lines 540-549.
U_Final(u) ==
    /\ unl[u].pc = "final"
    /\ \/ /\ StillRunning(u)
          /\ unl' = [unl EXCEPT ![u] =
                        Unloaded(u, "leaked", unl[u].expired)]
          /\ retired' = retired \cup {unl[u].handle}
       \/ /\ ~StillRunning(u)
          /\ unl' = [unl EXCEPT ![u].pc = "freectx"]
          /\ UNCHANGED retired
    /\ UNCHANGED <<g_registry, g_generation, g_slot, nsessions, inserts, cancel_flag,
                   poisoned, running, ctx, model, orphans, inf, can, issued, live,
                   owners, frees, uaf, overlapped, overflowed, dataVars>>

\* Lines 552-555: if (session->ctx) { llama_free(session->ctx); ctx = nullptr; }
U_FreeCtx(u) ==
    /\ unl[u].pc = "freectx"
    /\ ctx' = [ctx EXCEPT ![unl[u].sess] = "null"]
    /\ frees' = [frees EXCEPT ![unl[u].sess] = IF ctx[unl[u].sess] = "live" THEN @ + 1 ELSE @]
    /\ unl' = [unl EXCEPT ![u].pc = "freemodel"]
    /\ UNCHANGED <<g_registry, g_generation, g_slot, nsessions, inserts, cancel_flag,
                   poisoned, running, model, orphans, inf, can, issued, live, retired,
                   owners, uaf, overlapped, overflowed, dataVars>>

\* Lines 556-563: if (session->model) { llama_free_model(...); model = nullptr; }
U_FreeModel(u) ==
    /\ unl[u].pc = "freemodel"
    /\ model' = [model EXCEPT ![unl[u].sess] = "null"]
    /\ unl' = [unl EXCEPT ![u] = Unloaded(u, "freed", unl[u].expired)]
    /\ retired' = retired \cup {unl[u].handle}
    /\ UNCHANGED <<g_registry, g_generation, g_slot, nsessions, inserts, cancel_flag,
                   poisoned, running, ctx, orphans, inf, can, issued, live, owners,
                   frees, uaf, overlapped, overflowed, dataVars>>

\* --------------------------------------------------- nativeCancelInference

\* Lines 580-584: the null-handle test and registry_lookup.
C_Call(h) ==
    /\ can.pc = "idle"
    /\ \/ /\ h = 0
          /\ can' = CanIdle
       \/ /\ h # 0
          /\ registry_lookup(h) = NoSession
          /\ can' = CanIdle
       \/ /\ h # 0
          /\ registry_lookup(h) # NoSession
          /\ can' = [CanIdle EXCEPT !.pc = "check", !.sess = registry_lookup(h)]
    /\ UNCHANGED <<g_registry, g_generation, g_slot, nsessions, inserts, cancel_flag,
                   poisoned, running, ctx, model, orphans, inf, unl, histVars, dataVars>>

\* Line 587: the load of poisoned.
C_Check ==
    /\ can.pc = "check"
    /\ \/ /\ poisoned[can.sess]
          /\ can' = CanIdle
       \/ /\ ~poisoned[can.sess]
          /\ can' = [can EXCEPT !.pc = "store"]
    /\ UNCHANGED <<g_registry, g_generation, g_slot, nsessions, inserts, cancel_flag,
                   poisoned, running, ctx, model, orphans, inf, unl, histVars, dataVars>>

\* History: what a call in flight on the session records when a
\* nativeCancelInference stores. A store after the reset is kept over one
\* before it, and the first store after the reset over later ones.
CancelObserved(r) ==
    IF r.pc \in {"check1", "nullchk", "guard", "check2", "reset"}
    THEN [r EXCEPT !.cancelWhen = "setup"]
    ELSE IF r.cancelWhen \in {"check", "midstep"} THEN r
    ELSE IF r.pc = "step" THEN [r EXCEPT !.cancelWhen = "midstep"]
    ELSE [r EXCEPT !.cancelWhen = "check", !.cancelAt = r.i]

\* Line 589: session->cancel_flag.store(true); what it does to everything but
\* the history kept in inf.
C_Flag ==
    /\ can.pc = "store"
    /\ cancel_flag' = [cancel_flag EXCEPT ![can.sess] = TRUE]
    /\ can' = CanIdle
    /\ UNCHANGED <<g_registry, g_generation, g_slot, nsessions, inserts, poisoned,
                   running, ctx, model, orphans, unl, histVars, dataVars>>

\* Line 589.
C_Store ==
    /\ C_Flag
    /\ UNCHANGED inf

\* Line 589, with the history of the store in the calls in flight on the
\* session.
C_StoreObserved ==
    /\ C_Flag
    /\ inf' = [t \in InferThreads |->
                  IF inf[t].pc # "idle" /\ inf[t].sess = can.sess
                  THEN CancelObserved(inf[t]) ELSE inf[t]]

\* --------------------------------------------------------------- behaviours

nativeRunInference(t) ==
    \/ \E h \in CallerHandles : RI_Call(t, h)
    \/ RI_Check1(t)
    \/ RI_NullChk(t)
    \/ RI_Guard(t)
    \/ RI_Check2(t)
    \/ RI_Reset(t)
    \/ RI_Prefill(t)
    \/ RI_Loop(t)
    \/ RI_Step(t)

\* nativeRunInference with the history of RI_CallObserved.
nativeRunInferenceObserved(t) ==
    \/ \E h \in CallerHandles : RI_CallObserved(t, h)
    \/ RI_Check1(t)
    \/ RI_NullChk(t)
    \/ RI_Guard(t)
    \/ RI_Check2(t)
    \/ RI_Reset(t)
    \/ RI_Prefill(t)
    \/ RI_Loop(t)
    \/ RI_Step(t)

nativeUnload(u) ==
    \/ \E h \in CallerHandles : U_Call(u, h)
    \/ U_Poison(u)
    \/ U_Cancel(u)
    \/ U_Wait(u)
    \/ U_Final(u)
    \/ U_FreeCtx(u)
    \/ U_FreeModel(u)

\* nativeUnload with the history of U_CallObserved.
nativeUnloadObserved(u) ==
    \/ \E h \in CallerHandles : U_CallObserved(u, h)
    \/ U_Poison(u)
    \/ U_Cancel(u)
    \/ U_Wait(u)
    \/ U_Final(u)
    \/ U_FreeCtx(u)
    \/ U_FreeModel(u)

nativeCancelInference ==
    \/ \E h \in CallerHandles : C_Call(h)
    \/ C_Check
    \/ C_Store

\* One caller thread per handler, on up to MaxSessions sessions.
Next ==
    \/ nativeLoadModel(MaxSessions)
    \/ nativeRunInference("i1")
    \/ nativeUnload("u1")
    \/ nativeCancelInference

Spec == Init /\ [][Next]_vars

\* Two threads in nativeRunInference.
NextRace ==
    \/ nativeLoadModel(MaxSessions)
    \/ \E t \in InferThreads : nativeRunInference(t)
    \/ nativeUnload("u1")

SpecRace == Init /\ [][NextRace]_vars

\* Two threads in nativeUnload.
NextUnl ==
    \/ nativeLoadModel(MaxSessions)
    \/ nativeRunInference("i1")
    \/ \E u \in UnloadThreads : nativeUnload(u)

SpecUnl == Init /\ [][NextUnl]_vars

\* The registry and its counters over MaxLoads inserts.
NextReg ==
    \/ nativeLoadModel(MaxLoads)
    \/ nativeUnload("u1")
    \/ nativeCancelInference

SpecReg == Init /\ [][NextReg]_vars

\* nativeCancelInference with the history of C_StoreObserved.
nativeCancelInferenceObserved ==
    \/ \E h \in CallerHandles : C_Call(h)
    \/ C_Check
    \/ C_StoreObserved

\* One caller thread per handler, the cancels observed.
NextCancel ==
    \/ nativeLoadModel(MaxSessions)
    \/ nativeRunInferenceObserved("i1")
    \/ nativeUnload("u1")
    \/ nativeCancelInferenceObserved

SpecCancel == Init /\ [][NextCancel]_vars

\* An inference thread and an unload thread, the unload observed.
NextStop ==
    \/ nativeLoadModel(MaxSessions)
    \/ nativeRunInference("i1")
    \/ nativeUnloadObserved("u1")

SpecStop == Init /\ [][NextStop]_vars

\* ------------------------------------------------- is_json_object_closed

MaxTextLen == 6

\* One character of each class the scan tells apart.
Alphabet == {"{", "}", "\"", "\\", "\n", "a"}

\* static_cast<unsigned char>(c) < 0x20
ControlChars == {"\n", "\t", "\r"}

CharIsEscaped_AnyBackslash(n) == n > 0

CharIsEscaped_Never(n) == FALSE

\* char_is_escaped: the backslash run before the character is odd.
CharIsEscaped(n) == n % 2 = 1

ScanInit ==
    [depth |-> 0, seen_open |-> FALSE, in_string |-> FALSE,
     consecutive_backslashes |-> 0, returned |-> FALSE]

\* One turn of the for loop on character c; returned is the early
\* 'return true', after which no character is looked at.
ScanChar(s, c) ==
    IF s.returned THEN s
    ELSE IF ~s.seen_open /\ c # "{" THEN s
    ELSE IF c \in ControlChars THEN [s EXCEPT !.consecutive_backslashes = 0]
    ELSE IF c = "\\" THEN [s EXCEPT !.consecutive_backslashes = @ + 1]
    ELSE LET char_is_escaped == CharIsEscaped(s.consecutive_backslashes)
             r == [s EXCEPT !.consecutive_backslashes = 0]
         IN  IF c = "\"" /\ ~char_is_escaped THEN [r EXCEPT !.in_string = ~@]
             ELSE IF r.in_string THEN r
             ELSE LET depth == IF c = "{" THEN r.depth + 1
                               ELSE IF c = "}" THEN r.depth - 1
                               ELSE r.depth
                      seen_open == r.seen_open \/ c = "{"
                  IN  [r EXCEPT !.depth = depth, !.seen_open = seen_open,
                                !.returned = seen_open /\ depth = 0]

RECURSIVE ScanFrom(_, _, _)
ScanFrom(s, txt, k) ==
    IF k > Len(txt) THEN s ELSE ScanFrom(ScanChar(s, txt[k]), txt, k + 1)

is_json_object_closed(txt) == ScanFrom(ScanInit, txt, 1).returned

\* The texts the loop hands to the scan: output grows and is scanned whole
\* after each append.
CaseSimple == <<"{", "\"", "a", "\"", ":", "1", "}">>

CaseNested ==
    <<" ", " ", "\n", " ", "{", "\"", "x", "\"", ":",
      "{", "\"", "y", "\"", ":", "2", "}", "}">>

CaseUnterminated ==
    <<"{", "\"", "u", "n", "t", "e", "r", "m", "i", "n", "a", "t", "e", "d",
      "\"", ":">>

CaseEscapedBackslash ==
    <<"{", "\"", "a", "\"", ":", "\"", "\\", "\\", "\"", "}", "\"", "}">>

CaseEscapedQuote ==
    <<"{", "\"", "a", "\"", ":", "\"", "\\", "\"", "}", "\"", "}">>

CaseTexts ==
    {CaseSimple, CaseNested, CaseUnterminated, CaseEscapedBackslash,
     CaseEscapedQuote}

IsPrefix(p, txt) == Len(p) <= Len(txt) /\ p = SubSeq(txt, 1, Len(p))

\* output.append(buf, n_chars); is_json_object_closed(output), one character
\* c of the alphabet at a time.  A piece can hold several characters, so a
\* text that goes on after its closing brace is an input of the scan too.
Scan(c) ==
    /\ Len(text) < MaxTextLen
    /\ text' = Append(text, c)
    /\ closed' = is_json_object_closed(text')
    /\ UNCHANGED <<progVars, histVars, runs>>

\* The same on the next character of one of the case texts.
ScanCase(txt) ==
    /\ IsPrefix(text, txt)
    /\ Len(text) < Len(txt)
    /\ text' = SubSeq(txt, 1, Len(text) + 1)
    /\ closed' = is_json_object_closed(text')
    /\ UNCHANGED <<progVars, histVars, runs>>

NextJson ==
    \/ \E c \in Alphabet : Scan(c)
    \/ \E txt \in CaseTexts : ScanCase(txt)

SpecJson == Init /\ [][NextJson]_vars

\* -------------------------------------------------------- the decode loop

\* llama_n_vocab(session->model) and llama_token_eos(session->model) of the
\* model explored.
NVocab == 4

Tokens == 0 .. NVocab - 1

eos == NVocab - 1

\* llama_token_to_piece of that model: n_chars is the length of the piece,
\* and token 2 has no text (n_chars = 0).
llama_token_to_piece(tok) ==
    CASE tok = 0 -> <<"{">>
      [] tok = 1 -> <<"}">>
      [] OTHER -> <<>>

\* A float logit: a number or NaN.
Float(x) == [nan |-> FALSE, v |-> x]

NaN == [nan |-> TRUE, v |-> 0]

LogitValues == {NaN, Float(0), Float(1)}

LogitVectors == [Tokens -> LogitValues]

FloatGreater_OrEqual(a, b) == ~a.nan /\ ~b.nan /\ a.v >= b.v

\* logits[t] > best_logit on floats: false when either side is NaN.
FloatGreater(a, b) == ~a.nan /\ ~b.nan /\ a.v > b.v

\* Lines 432-439.
RECURSIVE ArgMaxFrom(_, _, _, _)
ArgMaxFrom(logits, t, best_token, best_logit) ==
    IF t >= NVocab THEN best_token
    ELSE IF FloatGreater(logits[t], best_logit)
         THEN ArgMaxFrom(logits, t + 1, t, logits[t])
         ELSE ArgMaxFrom(logits, t + 1, best_token, best_logit)

ArgMax(logits) == ArgMaxFrom(logits, 1, 0, logits[0])

\* How token t relates to logits: "max" when its logit is a number that no
\* logit exceeds and no logit of a lower index equals, "nan0" when it is
\* token 0 and logits[0] is NaN, "other" otherwise.
PickKind(logits, t) ==
    IF /\ ~logits[t].nan
       /\ \A u \in Tokens : logits[u].nan \/ logits[u].v <= logits[t].v
       /\ \A u \in 0 .. t - 1 : logits[u].nan \/ logits[u].v < logits[t].v
    THEN "max"
    ELSE IF t = 0 /\ logits[0].nan THEN "nan0"
    ELSE "other"

\* The values of the jfloat arguments explored.
Temperatures == {0, 1}

TopPs == {0, 1}

\* What one iteration finds at its two stop tests: cancel_flag set, or
\* elapsed_ms > timeoutMs.
Stops == {"none", "cancel", "timeout"}

LoopResult_ErrOnDecodeFailure(r, kind) ==
    IF kind = "decode_failed"
    THEN [tag |-> "ERR", count |-> 0, text |-> <<>>]
    ELSE [tag |-> "OK", count |-> r.generated_count, text |-> r.output]

\* Lines 483-492: "TOKEN_COUNT|TTFT_MS|output_text"; the measured ttft_ms is
\* left out.
LoopResult(r, kind) ==
    [tag |-> "OK", count |-> r.generated_count, text |-> r.output]

LoopExit(r, kind) ==
    [r EXCEPT !.pc = "done", !.exit = kind, !.result = LoopResult(r, kind)]

\* Lines 413-481: one iteration of run r, which finds stop at its stop tests,
\* is handed logits by llama_get_logits_ith and decoded by llama_decode.
Iterate(r, stop, logits, decoded) ==
    IF r.i >= r.maxTokens THEN LoopExit(r, "max_tokens")
    ELSE IF stop = "cancel" THEN LoopExit(r, "cancel")
    ELSE IF stop = "timeout" THEN LoopExit(r, "timeout")
    ELSE LET best_token == ArgMax(logits)
             q == [r EXCEPT !.selected = Append(@, best_token),
                            !.picks = @ \cup {PickKind(logits, best_token)}]
         IN  IF best_token = eos THEN LoopExit(q, "eos")
             ELSE LET piece == llama_token_to_piece(best_token)
                      n_chars == Len(piece)
                      s == [q EXCEPT
                              !.output = IF n_chars > 0 THEN @ \o piece ELSE @,
                              !.appended = IF n_chars > 0 THEN @ + 1 ELSE @,
                              !.generated_count = @ + 1]
                  IN  IF is_json_object_closed(s.output) THEN LoopExit(s, "closed")
                      ELSE \* llama_batch_add(single, best_token, n_cur); n_cur++
                           IF ~decoded
                           THEN LoopExit([s EXCEPT !.n_cur = @ + 1], "decode_failed")
                           ELSE [s EXCEPT !.n_cur = @ + 1, !.i = @ + 1]

\* Two invocations with the same prompt, of n_tokens tokens, and the same
\* maxTokens, and each with its own temperature and topP, whose prefill
\* succeeded: lines 404-411.
StartRunsWith(n_tokens) ==
    /\ \A r \in RunIds : runs[r].pc = "idle"
    /\ \E maxTokens \in 0 .. MaxTokens,
          temperature \in [RunIds -> Temperatures], topP \in [RunIds -> TopPs] :
           runs' = [r \in RunIds |->
                       [RunIdle EXCEPT !.pc = "loop", !.maxTokens = maxTokens,
                                       !.n_tokens = n_tokens, !.n_cur = n_tokens,
                                       !.temperature = temperature[r],
                                       !.topP = topP[r]]]
    /\ UNCHANGED <<progVars, histVars, detVars>>

\* The prompt lengths line 378 lets through: at least 1 (add_bos), below n_ctx.
AcceptedPrompts == {n \in TokenCounts : n >= 0 /\ ~PromptTooLong(n)}

\* The same with the longest prompt accepted.
StartRuns == StartRunsWith(NCtx - 1)

\* The same with any prompt accepted.
StartRunsAnyPrompt == \E n_tokens \in AcceptedPrompts : StartRunsWith(n_tokens)

\* The context of run r behind the prompt.  The token its next llama_decode
\* adds is the argmax of the logits of this context.
Context(r) == runs[r].selected

InLoop == {r \in RunIds : runs[r].pc = "loop"}

\* The next iteration of every run still in its loop.  The model is a
\* function: runs with the same context are handed the same logits, and the
\* same llama_decode outcome for the same new token.
DecodeIteration ==
    /\ InLoop # {}
    /\ \E engine \in [{Context(r) : r \in InLoop} -> LogitVectors],
          decode \in [{Context(r) : r \in InLoop} -> BOOLEAN],
          stop \in [InLoop -> Stops] :
           runs' = [r \in RunIds |->
                       IF r \in InLoop
                       THEN Iterate(runs[r], stop[r], engine[Context(r)],
                                    decode[Context(r)])
                       ELSE runs[r]]
    /\ UNCHANGED <<progVars, histVars, detVars>>

NextDecode ==
    \/ StartRuns
    \/ DecodeIteration

SpecDecode == Init /\ [][NextDecode]_vars

\* The decode loops over every prompt length.
NextCeiling ==
    \/ StartRunsAnyPrompt
    \/ DecodeIteration

SpecCeiling == Init /\ [][NextCeiling]_vars

\* ------------------------------------------------------------------ claims

\* What the callers share: the registry, every session's flags and resources.
shared == <<g_registry, cancel_flag, poisoned, running, ctx, model>>

InRegistry(s) == \E h \in HandleSpace : g_registry[h] = s

\* C1: no nativeRunInference call makes an engine call on a session whose ctx
\* or model nativeUnload has freed, as long as the guarded scopes of the calls
\* on that session have not overlapped.
C1_NoUseAfterFree == uaf \subseteq overlapped

\* C1 witness: a call is inside its guard on a session nativeUnload has freed.
C1_Witness ==
    \E t \in InferThreads :
        /\ InGuard(t)
        /\ ctx[inf[t].sess] = "null"
        /\ model[inf[t].sess] = "null"

\* C2: no handle value is returned by two loads, no two registry entries decode
\* to the same (generation, slot), and a handle whose unload has returned does
\* not resolve through registry_lookup again.
C2_NoReuse ==
    /\ \A h \in HandleSpace : issued[h] <= 1
    /\ \A h1, h2 \in HandleSpace :
          (g_registry[h1] # NoSession /\ g_registry[h2] # NoSession /\ h1 # h2)
             => <<HandleGeneration(h1), HandleSlot(h1)>> # <<HandleGeneration(h2), HandleSlot(h2)>>
    /\ \A h \in retired : registry_lookup(h) = NoSession

\* C3: once registry_insert has refused an insert because a counter wrapped to
\* 0, no later insert returns a handle or stores a session.
C3_OverflowIsPermanent ==
    [][overflowed =>
          /\ issued' = issued
          /\ \A h \in HandleSpace : g_registry'[h] \in {g_registry[h], NoSession}]_vars

\* A handle no load has returned, or whose entry has been erased since (and 0).
NotLive(h) == h = 0 \/ h \notin live

\* C4: for a handle that is 0, was never returned by a load, or whose entry has
\* been erased, nativeRunInference returns NULL_HANDLE (for 0) or STALE_HANDLE,
\* nativeCancelInference and nativeUnload return, and none of them changes the
\* registry, a flag or a native resource.
C4_FailSafeLookup ==
    [][\A h \in CallerHandles :
          NotLive(h) =>
             /\ \A t \in InferThreads :
                   RI_Call(t, h) =>
                      /\ inf'[t].pc = "idle"
                      /\ inf'[t].result = IF h = 0 THEN "NULL_HANDLE" ELSE "STALE_HANDLE"
                      /\ UNCHANGED shared
             /\ \A u \in UnloadThreads :
                   U_Call(u, h) =>
                      /\ unl'[u].pc = "idle"
                      /\ unl'[u].outcome = "noop"
                      /\ UNCHANGED shared
             /\ C_Call(h) => (can'.pc = "idle" /\ UNCHANGED shared)]_vars

\* C4 witness: nativeRunInference has returned STALE_HANDLE for a handle whose
\* unload has returned, and a second nativeUnload of it has returned too.
C4_Witness ==
    /\ inf["i1"].result = "STALE_HANDLE"
    /\ inf["i1"].handle \in retired
    /\ unl["u1"].outcome = "noop"
    /\ unl["u1"].handle \in retired

\* C5: when the wait has run its UNLOAD_WAIT_MS and running is still true at
\* the load that follows it, nativeUnload returns without freeing ctx or model.
C5_LeakOverCrash ==
    [][\A u \in UnloadThreads :
          (unl[u].pc = "final" /\ unl[u].expired /\ running[unl[u].sess]
              /\ unl'[u] # unl[u])
             => /\ unl'[u].pc = "idle"
                /\ unl'[u].outcome = "leaked"
                /\ ctx' = ctx
                /\ model' = model]_vars

\* C5 witness: an unload has returned after the full wait and the session it
\* took out of the registry still has its ctx and model.
C5_Witness ==
    \E u \in UnloadThreads, s \in Sessions :
        /\ unl[u].pc = "idle"
        /\ unl[u].outcome = "leaked"
        /\ unl[u].expired
        /\ poisoned[s]
        /\ ~InRegistry(s)
        /\ ctx[s] = "live"
        /\ model[s] = "live"

FreePcs == {"freectx", "freemodel"}

\* C6 as stated: whenever nativeUnload is at the free of ctx or model, running
\* is false for that session and its registry entry is gone.
C6_FreeOnlyWhenNotRunning ==
    \A u \in UnloadThreads :
        unl[u].pc \in FreePcs
           => (~running[unl[u].sess] /\ ~InRegistry(unl[u].sess))

\* C6 amended: whenever nativeUnload is at the free of ctx or model, the
\* registry entry is gone, the session is poisoned, and a call inside its guard
\* on that session (running may be true again) is still before its re-check of
\* poisoned, unless guarded scopes on the session have overlapped.
C6_FreeOnlyWhenNoUser ==
    \A u \in UnloadThreads :
        unl[u].pc \in FreePcs
           => /\ ~InRegistry(unl[u].sess)
              /\ poisoned[unl[u].sess]
              /\ unl[u].sess \notin overlapped
                    => \A t \in InferThreads :
                          (InGuard(t) /\ inf[t].sess = unl[u].sess) => inf[t].pc = "check2"

\* C6 witness: nativeUnload is freeing while running is true.
C6_Witness ==
    \E u \in UnloadThreads :
        /\ unl[u].pc = "freemodel"
        /\ running[unl[u].sess]

\* C7: each session is handed out by registry_erase to at most one nativeUnload
\* call and its ctx is freed at most once; a nativeUnload of a handle whose
\* entry is gone returns without changing the registry, a flag or a resource.
C7_UnloadIdempotent ==
    [][/\ \A s \in 1 .. nsessions' : owners'[s] <= 1 /\ frees'[s] <= 1
       /\ \A u \in UnloadThreads, h \in CallerHandles :
             (NotLive(h) /\ U_Call(u, h))
                => (unl'[u].pc = "idle" /\ unl'[u].outcome = "noop" /\ UNCHANGED shared)]_vars

\* C7 witness: two unloads of the same handle have returned; one freed the
\* session, the other did nothing.
C7_Witness ==
    /\ unl["u1"].pc = "idle"
    /\ unl["u2"].pc = "idle"
    /\ unl["u1"].outcome = "freed"
    /\ unl["u2"].outcome = "noop"
    /\ unl["u1"].handle = unl["u2"].handle
    /\ \E s \in Sessions : owners[s] = 1 /\ frees[s] = 1

\* C8: poisoned never goes from true to false.
C8_PoisonedLatch == [][\A s \in Sessions : poisoned[s] => poisoned'[s]]_vars

\* C8 witness: a poisoned session has been through a later nativeRunInference
\* step (the call was refused as POISONED).
C8_Witness ==
    /\ \E s \in Sessions : poisoned[s]
    /\ inf["i1"].result = "POISONED"

PreGuardPcs == {"idle", "check1", "nullchk"}

\* C9: running goes to true only at the guard's construction; a return from
\* inside the guard leaves running false; a return before the guard does not
\* write running; and, while guarded scopes on a session have not overlapped,
\* running is true exactly while a call is inside its guard.
C9_GuardBrackets ==
    [][/\ \A s \in Sessions :
             (~running[s] /\ running'[s])
                => \E t \in InferThreads :
                      inf[t].pc = "guard" /\ inf[t].sess = s /\ inf'[t].pc = "check2"
       /\ \A t \in InferThreads :
             /\ (inf[t].pc \in GuardedPcs /\ inf'[t].pc = "idle")
                   => ~running'[inf[t].sess]
             /\ (inf[t].pc \in PreGuardPcs /\ inf'[t].pc = "idle" /\ inf'[t] # inf[t])
                   => running' = running
       /\ \A s \in 1 .. nsessions' :
             s \notin overlapped'
                => (running'[s] <=>
                       \E t \in InferThreads :
                          inf'[t].pc \in GuardedPcs /\ inf'[t].sess = s)]_vars

\* C9 witness: a call has returned DECODE from inside its guard and running is
\* false again.
C9_Witness ==
    /\ inf["i1"].pc = "idle"
    /\ inf["i1"].result = "DECODE"
    /\ \A s \in Sessions : ~running[s]

\* C10: a call that is at or before its re-check of poisoned (line 344) on a
\* session that is poisoned makes no engine call and, when it leaves the setup,
\* returns an ERR result.
C10_SetupRaceAborts ==
    [][\A t \in InferThreads :
          (inf[t].pc \in SetupPcs /\ poisoned[inf[t].sess])
             => /\ ~inf'[t].touched
                /\ \/ inf'[t].pc \in SetupPcs
                   \/ inf'[t].pc = "idle" /\ inf'[t].result \in ErrorKinds]_vars

\* C10 witness: the call returned POISONED and the unload found running true
\* after its wait: the session was poisoned after the call's first check and
\* the call stopped at the re-check.
C10_Witness ==
    /\ inf["i1"].pc = "idle"
    /\ inf["i1"].result = "POISONED"
    /\ ~inf["i1"].touched
    /\ unl["u1"].outcome = "leaked"
    /\ inf["i1"].handle = unl["u1"].handle

\* C11: a call during which a nativeCancelInference on its handle completed
\* before any step of the decode loop returns 0 generated tokens, and one
\* during which it completed after exactly K steps (none under way) returns K.
C11_CancellationDeterminism ==
    [][\A t \in InferThreads :
          (inf[t].pc # "idle" /\ inf'[t].pc = "idle")
             => /\ inf[t].cancelWhen = "setup" => inf'[t].count = 0
                /\ inf[t].cancelWhen = "check" => inf'[t].count = inf[t].cancelAt]_vars

\* What holds of C11: only for a cancel that stored after the reset of line 349.
C11_AfterReset ==
    [][\A t \in InferThreads :
          (inf[t].pc # "idle" /\ inf'[t].pc = "idle" /\ inf[t].cancelWhen = "check")
             => inf'[t].count = inf[t].cancelAt]_vars

\* C12: at every per-step check of cancel_flag the flag is set only if a
\* nativeCancelInference stored after this call's reset or a nativeUnload took
\* the session; a cancel from before the call does not end its decode loop.
C12_StaleCancelDoesNotBleed ==
    \A t \in InferThreads :
        (inf[t].pc = "loop" /\ cancel_flag[inf[t].sess])
           => \/ inf[t].cancelWhen \in {"check", "midstep"}
              \/ poisoned[inf[t].sess]

\* C12 witness: a call that found cancel_flag set at its lookup has passed its
\* first per-step check; no cancel and no unload came in between.
C12_Witness ==
    \E t \in InferThreads :
        /\ inf[t].pc = "step"
        /\ inf[t].i = 0
        /\ inf[t].stale
        /\ inf[t].cancelWhen = "none"
        /\ ~poisoned[inf[t].sess]

\* C14: when llama_tokenize returns a negative count the call returns TOKENIZE,
\* when it returns a count not smaller than n_ctx the call returns
\* CTX_OVERFLOW; either way no llama_decode has been called (the prompt is
\* refused, not cut) and the guard has stored running = false.  Other counts
\* give neither error.
C14_PrefillValidation ==
    [][\A t \in InferThreads, n \in TokenCounts :
          RI_PrefillTokens(t, n)
             => /\ (n < 0 \/ n >= NCtx)
                      => /\ inf'[t].pc = "idle"
                         /\ inf'[t].result = IF n < 0 THEN "TOKENIZE" ELSE "CTX_OVERFLOW"
                         /\ ~inf'[t].decoded
                         /\ ~running'[inf[t].sess]
                /\ (n >= 0 /\ n < NCtx)
                      => /\ inf'[t].result \notin {"TOKENIZE", "CTX_OVERFLOW"}
                         /\ inf'[t].decoded]_vars

\* C14 witness: a call has returned CTX_OVERFLOW without a llama_decode and
\* running is false again.
C14_Witness ==
    /\ inf["i1"].pc = "idle"
    /\ inf["i1"].result = "CTX_OVERFLOW"
    /\ ~inf["i1"].decoded
    /\ \A s \in Sessions : ~running[s]

\* nativeUnload has stored poisoned = true and cancel_flag = true.
StoresDone(u) == unl[u].pc \in {"wait", "final", "freectx", "freemodel"}

\* C18: when nativeUnload took a session whose running flag was true and has
\* stored poisoned and cancel_flag, the call inside the guard on that session
\* passes no per-step check into a new decode step.
C18_UnloadStopsInFlightCall ==
    [][\A t \in InferThreads, u \in UnloadThreads :
          (/\ StoresDone(u)
           /\ inf[t].taken
           /\ InGuard(t)
           /\ inf[t].sess = unl[u].sess)
             => ~(inf[t].pc = "loop" /\ inf'[t].pc = "step")]_vars

\* The sleeps of UNLOAD_POLL_MS that fit into UNLOAD_WAIT_MS.
MaxPolls == UNLOAD_WAIT_MS \div UNLOAD_POLL_MS

\* The steps a nativeUnload call can still take at most.
UnloadRank(r) ==
    CASE r.pc = "poison"    -> MaxPolls + 6
      [] r.pc = "cancel"    -> MaxPolls + 5
      [] r.pc = "wait"      -> 4 + (MaxPolls - r.waited_ms \div UNLOAD_POLL_MS)
      [] r.pc = "final"     -> 3
      [] r.pc = "freectx"   -> 2
      [] r.pc = "freemodel" -> 1
      [] OTHER              -> 0

\* C19: a nativeUnload call sleeps at most MaxPolls (30) times in its wait
\* loop, its next step never waits for another thread, and every step it takes
\* brings it closer to its return, whatever running does.
C19_UnloadTerminates ==
    /\ [](\A u \in UnloadThreads :
             /\ unl[u].waited_ms \div UNLOAD_POLL_MS <= MaxPolls
             /\ unl[u].pc # "idle" => ENABLED nativeUnload(u))
    /\ [][\A u \in UnloadThreads :
             (unl[u].pc # "idle" /\ unl'[u] # unl[u])
                => /\ UnloadRank(unl'[u]) < UnloadRank(unl[u])
                   /\ UnloadRank(unl[u]) <= MaxPolls + 6]_vars

\* C19 witness: the wait loop has slept MaxPolls times and running is still
\* true.
C19_Witness ==
    \E u \in UnloadThreads :
        /\ unl[u].pc = "wait"
        /\ unl[u].waited_ms = MaxPolls * UNLOAD_POLL_MS
        /\ running[unl[u].sess]

\* C20: a session stored in the registry is not poisoned and has its model and
\* context; poisoned is stored and the context and model are freed only for a
\* session whose entry is gone.
C20_RegistryEntriesHealthy ==
    /\ [](\A h \in HandleSpace :
             g_registry[h] # NoSession
                => /\ ~poisoned[g_registry[h]]
                   /\ ctx[g_registry[h]] = "live"
                   /\ model[g_registry[h]] = "live")
    /\ [][\A s \in Sessions :
             (\/ ~poisoned[s] /\ poisoned'[s]
              \/ ctx[s] # ctx'[s]
              \/ model[s] # model'[s])
                => ~InRegistry(s) /\ ~(\E h \in HandleSpace : g_registry'[h] = s)]_vars

\* C20 witness: one session is in the registry while another, taken out of
\* it, is poisoned and freed.
C20_Witness ==
    \E s1, s2 \in Sessions :
        /\ InRegistry(s1)
        /\ ~InRegistry(s2)
        /\ poisoned[s2]
        /\ ctx[s2] = "null"
        /\ model[s2] = "null"

\* The reference of C15, stated by position rather than by a scan.
HasOpen(txt) == \E p \in 1 .. Len(txt) : txt[p] = "{"

FirstOpen(txt) ==
    CHOOSE p \in 1 .. Len(txt) :
        txt[p] = "{" /\ \A q \in 1 .. p - 1 : txt[q] # "{"

\* Length of the run of backslashes that ends just before position p.
BackslashRun(txt, p) ==
    CHOOSE k \in 0 .. p - 1 :
        /\ \A q \in p - k .. p - 1 : txt[q] = "\\"
        /\ k = p - 1 \/ txt[p - k - 1] # "\\"

TogglesString(txt, p) == txt[p] = "\"" /\ BackslashRun(txt, p) % 2 = 0

InsideString(txt, f, p) ==
    Cardinality({q \in f .. p - 1 : TogglesString(txt, q)}) % 2 = 1

StructuralBraces(txt, f, p, b) ==
    {q \in f .. p : txt[q] = b /\ ~InsideString(txt, f, q)}

RefDepth(txt, f, p) ==
    Cardinality(StructuralBraces(txt, f, p, "{"))
        - Cardinality(StructuralBraces(txt, f, p, "}"))

RefClosed(txt) ==
    /\ HasOpen(txt)
    /\ \E p \in FirstOpen(txt) .. Len(txt) : RefDepth(txt, FirstOpen(txt), p) = 0

\* C15: is_json_object_closed(text) is true exactly when, from the first '{'
\* on and counting only the braces outside quoted strings (a quote toggles
\* the string state unless an odd run of backslashes precedes it), the depth
\* is back at zero at some position; '{"a":1}' and the nested object behind a
\* preamble are closed at their last character and at no earlier prefix, and
\* no prefix of '{"unterminated":' is closed.
C15_DetectorMatchesReference ==
    /\ closed = RefClosed(text)
    /\ IsPrefix(text, CaseSimple) => (closed <=> text = CaseSimple)
    /\ IsPrefix(text, CaseNested) => (closed <=> text = CaseNested)
    /\ IsPrefix(text, CaseUnterminated) => ~closed

C15_Witness == text = CaseNested /\ closed

\* C16 as stated: over the growing prefixes of the 12-character text
\* {"a":"\\"}"} closed is reported at the whole text only.
C16_ClosedOnlyAtFinalBrace ==
    IsPrefix(text, CaseEscapedBackslash)
        => (closed <=> text = CaseEscapedBackslash)

\* C16 amended: over the growing prefixes of the 12-character text
\* {"a":"\\"}"} closed is reported from the prefix of length 10 on, the one
\* that ends at the first '}': the two backslashes are an even run, so the
\* quote after them ends the string and that '}' is outside it.  Over the
\* prefixes of the 11-character text {"a":"\"}"}, where one backslash
\* precedes the quote, closed is reported at the whole text only.
C16_ClosedAtFirstBraceAfterEvenRun ==
    /\ IsPrefix(text, CaseEscapedBackslash) => (closed <=> Len(text) >= 10)
    /\ IsPrefix(text, CaseEscapedQuote) => (closed <=> text = CaseEscapedQuote)

C16_Witness == text = SubSeq(CaseEscapedBackslash, 1, 10) /\ closed

LoopExits == {"cancel", "timeout", "eos", "closed", "decode_failed", "max_tokens"}

\* The number of tokens other than eos among those chosen.
NonEosSelected(r) ==
    Cardinality({k \in 1 .. Len(r.selected) : r.selected[k] # eos})

\* C13 as stated: whichever way the decode loop is left, the result is the
\* success record with the output so far, and its count is the number of
\* tokens whose text was appended to the output.
C13_CountIsTokensAppended ==
    \A r \in RunIds :
        runs[r].pc = "done" =>
            /\ runs[r].exit \in LoopExits
            /\ runs[r].result.tag = "OK"
            /\ runs[r].result.text = runs[r].output
            /\ runs[r].result.count = runs[r].appended

\* C13 amended: whichever way the decode loop is left (cancel, deadline, eos,
\* closed object, failed llama_decode, maxTokens), the result is the success
\* record with the output so far, and its count is the number of tokens other
\* than eos chosen before the exit, which is at least the number of tokens
\* whose text was appended: a token whose piece is empty is counted too.
C13_LoopExitsWithSuccessRecord ==
    \A r \in RunIds :
        runs[r].pc = "done" =>
            /\ runs[r].exit \in LoopExits
            /\ runs[r].result.tag = "OK"
            /\ runs[r].result.text = runs[r].output
            /\ runs[r].result.count = NonEosSelected(runs[r])
            /\ runs[r].result.count >= runs[r].appended

C13_Witness ==
    \E r \in RunIds :
        /\ runs[r].pc = "done"
        /\ runs[r].exit = "cancel"
        /\ runs[r].result.count = 1
        /\ runs[r].appended = 0

BothDone == \A r \in RunIds : runs[r].pc = "done"

SameResult ==
    \A r, q \in RunIds :
        /\ runs[r].result.text = runs[q].result.text
        /\ runs[r].result.count = runs[q].result.count

\* C17 as stated: two runs on the same model with the same prompt and
\* maxTokens return the same text and count whatever temperature and topP
\* each was passed, and every token chosen is the lowest-index maximum of its
\* logits.
C17_SameInputsSameOutput ==
    /\ BothDone => SameResult
    /\ \A r \in RunIds : runs[r].picks \subseteq {"max"}

\* C17 amended: two runs on the same model with the same prompt and maxTokens,
\* neither of which is stopped by a cancel request or by its deadline, return
\* the same text and count whatever temperature and topP each was passed; a
\* run that is stopped has chosen a prefix of the other's tokens.  Every token
\* chosen is the lowest-index maximum of the logits that are numbers, or
\* token 0 when logits[0] is NaN.
C17_DeterministicUnlessStopped ==
    /\ (BothDone /\ \A r \in RunIds : runs[r].exit \notin {"cancel", "timeout"})
           => SameResult
    /\ \A r, q \in RunIds :
           IsPrefix(runs[r].selected, runs[q].selected)
               \/ IsPrefix(runs[q].selected, runs[r].selected)
    /\ \A r \in RunIds : runs[r].picks \subseteq {"max", "nan0"}

C17_Witness ==
    /\ BothDone
    /\ runs["a"].temperature # runs["b"].temperature
    /\ runs["a"].topP # runs["b"].topP
    /\ \A r \in RunIds : runs[r].exit = "closed" /\ runs[r].picks = {"max"}
    /\ SameResult
    /\ runs["a"].result.count = MaxTokens

\* C21: whenever a nativeRunInference call is between the construction and
\* the destruction of its InferenceGuard, running is true for its session,
\* also when several calls on the session overlap; and no engine call is
\* made on a ctx or model that nativeUnload has freed.
C21_RunningCoversOverlappingCalls ==
    /\ \A t \in InferThreads : InGuard(t) => running[inf[t].sess]
    /\ uaf = {}

\* The end of the same run: a call past its re-check of poisoned is in its
\* guard on a session nativeUnload has freed after loading running = false.
C21_FreedUnderCall ==
    \E t \in InferThreads :
        /\ inf[t].pc \in {"prefill", "loop", "step"}
        /\ ~running[inf[t].sess]
        /\ ctx[inf[t].sess] = "null"

\* C22: a nativeLoadModel call that returns 0 (nothing is inserted) leaves no
\* model or ctx it allocated behind and leaves the map of the registry as it
\* was.
C22_FailedLoadLeavesNothing ==
    [][(nativeLoadModel(MaxLoads) /\ nsessions' = nsessions)
          => (orphans' = orphans /\ g_registry' = g_registry)]_vars

\* C23: in an accepted invocation (n_tokens < n_ctx) every generated token
\* is fed back to the engine at a position n_cur below n_ctx.  A run has fed
\* tokens when n_cur is past n_tokens, the last of them at n_cur - 1.
C23_FedBelowContextWindow ==
    \A r \in RunIds :
        (runs[r].pc # "idle" /\ runs[r].n_cur > runs[r].n_tokens)
            => (runs[r].n_tokens < NCtx /\ runs[r].n_cur - 1 < NCtx)

====
